---- MODULE Spec2Model ----
(***************************************************************************)
(* The quantity-conservation ledger of the FIMS retail management system:  *)
(* rakes, loading slips (dispatch allocations), builties (transport        *)
(* documents), warehouse stock entries and e-bills, as stored by           *)
(* src/database.py and driven by the request handlers of src/app.py.       *)
(*                                                                         *)
(* Tables are sets of rows (records).  Quantities (REAL columns) are       *)
(* modelled as integers.  A request handler that makes several database    *)
(* calls, each in its own connection and transaction, is a process that    *)
(* takes one step per transaction group; handlers of different requests    *)
(* interleave between those steps.                                         *)
(***************************************************************************)
EXTENDS Integers, FiniteSets, Sequences, TLC

\* ---------------------------------------------------------------- bounds
MaxQty == 2
MaxSlips == 2
MaxBuilties == 2
MaxStock == 3
MaxProcs == 2
MaxEbills == 2

\* ------------------------------------------------------------- constants
NULL == 0
RakeCodes == {"R1"}
WAREHOUSE == "WAREHOUSE"
\* a NULL rake_code column or query result
NullCode == "NULL"
\* the loading point named on slips made at the rake point; slips made at a
\* warehouse name the warehouse
RakePoint == 0
Warehouses == {1}
Procs == 1..MaxProcs
\* float(request.form.get(...)) accepts any number: no handler validates sign
QtyInputs == {-1, 0} \cup (1..MaxQty)
\* the quantities a well-behaved client sends
PosQty == 1..MaxQty
\* a client that always sends the same quantity
UnitQty == {1}
RRInputs == 1..MaxQty
BuiltyNumbers == 1..MaxBuilties
\* the e-bill numbers an accountant types
EbillNumbers == 1..MaxEbills

VARIABLES
    rakes,            \* table rakes
    loading_slips,    \* table loading_slips
    builty,           \* table builty
    warehouse_stock,  \* table warehouse_stock
    ebills,           \* table ebills
    sqlite_sequence,  \* AUTOINCREMENT counters, one per table
    cache,            \* the module-level SimpleCache _cache
    req,              \* per request process: position and locals of its handler
    response          \* the flash message of the request that completed last

tables == <<rakes, loading_slips, builty, warehouse_stock, ebills>>
vars == <<rakes, loading_slips, builty, warehouse_stock, ebills,
          sqlite_sequence, cache, req, response>>

\* ---------------------------------------------------------------- helpers
RECURSIVE SumQty(_)
SumQty(rows) ==
    IF rows = {} THEN 0
    ELSE LET r == CHOOSE x \in rows : TRUE
         IN r.quantity_mt + SumQty(rows \ {r})

MaxOf(S) == CHOOSE x \in S : \A y \in S : y <= x

Idle == [pc |-> "idle"]
\* each key holds no entry ({}) or one cached value ({value})
EmptyCache == [k \in {"all_rake_balances", "all_warehouse_balances",
                      "rakes_with_balances"} |-> {}]
\* a flash message: who is answered, for what, how, and the figure it quotes
NoResponse == [proc |-> 0, op |-> "none", result |-> "none", value |-> 0]
Flash(p, op, result) == [proc |-> p, op |-> op, result |-> result, value |-> 0]

\* cursor.lastrowid of an AUTOINCREMENT table: ids are never reused
NextId(table) == sqlite_sequence[table] + 1
Bump(table) == [sqlite_sequence EXCEPT ![table] = @ + 1]

\* requests that have passed their check and still hold an insert to make
Pending(pcs) == Cardinality({p \in Procs : req[p].pc \in pcs})

\* ------------------------------------------------------------ rake ledger
RakeByCode(rake_code) == {r \in rakes : r.rake_code = rake_code}

SlipsOfRake(slips, rake_code) == {s \in slips : s.rake_code = rake_code}

get_rake_balance(rake_code) ==
    IF RakeByCode(rake_code) = {}
    THEN [found |-> FALSE, total |-> 0, dispatched |-> 0, remaining |-> 0]
    ELSE LET r == CHOOSE x \in RakeByCode(rake_code) : TRUE
             dispatched == SumQty(SlipsOfRake(loading_slips, rake_code))
         IN [found |-> TRUE,
             total |-> r.rr_quantity,
             dispatched |-> dispatched,
             remaining |-> r.rr_quantity - dispatched]

get_next_serial_number_for_rake(rake_code) ==
    LET S == SlipsOfRake(loading_slips, rake_code)
    IN IF S = {} THEN 1 ELSE MaxOf({s.slip_number : s \in S}) + 1

\* an insert into a rakes table without the UNIQUE constraint
add_rake_unconstrained(rake_code, rr_quantity) ==
    /\ rakes' = rakes \cup {[rake_id |-> NextId("rakes"),
                             rake_code |-> rake_code,
                             rr_quantity |-> rr_quantity,
                             is_closed |-> FALSE,
                             shortage |-> 0]}
    /\ sqlite_sequence' = Bump("rakes")
    /\ response' = Flash(0, "add_rake", "success")
    /\ UNCHANGED <<loading_slips, builty, warehouse_stock, ebills, cache, req>>

\* INSERT INTO rakes: rake_code is UNIQUE, a duplicate raises and returns None
add_rake(rake_code, rr_quantity) ==
    /\ IF RakeByCode(rake_code) # {}
       THEN /\ UNCHANGED <<rakes, sqlite_sequence>>
            /\ response' = Flash(0, "add_rake", "error")
       ELSE /\ rakes' = rakes \cup {[rake_id |-> NextId("rakes"),
                                     rake_code |-> rake_code,
                                     rr_quantity |-> rr_quantity,
                                     is_closed |-> FALSE,
                                     shortage |-> 0]}
            /\ sqlite_sequence' = Bump("rakes")
            /\ response' = Flash(0, "add_rake", "success")
    /\ UNCHANGED <<loading_slips, builty, warehouse_stock, ebills, cache, req>>

admin_add_rake == \E c \in RakeCodes, q \in RRInputs : add_rake(c, q)

\* a shortage that ignores what was dispatched
ShortageOfTotal(rr_quantity, dispatched_quantity) == rr_quantity

\* close_rake's "Calculate shortage"
Shortage(rr_quantity, dispatched_quantity) == rr_quantity - dispatched_quantity

\* close_rake returns (True, shortage), which admin_close_rake quotes in its
\* flash message
close_rake(rake_code) ==
    /\ IF RakeByCode(rake_code) = {}
       THEN /\ UNCHANGED rakes
            /\ response' = Flash(0, "close_rake", "Rake not found")
       ELSE LET rake == CHOOSE r \in RakeByCode(rake_code) : TRUE
                dispatched_quantity == SumQty(SlipsOfRake(loading_slips, rake_code))
                shortage == Shortage(rake.rr_quantity, dispatched_quantity)
            IN /\ rakes' = {IF r.rake_code = rake_code
                            THEN [r EXCEPT !.is_closed = TRUE, !.shortage = shortage]
                            ELSE r : r \in rakes}
               /\ response' = [Flash(0, "close_rake", "success")
                                 EXCEPT !.value = shortage]
    /\ UNCHANGED <<loading_slips, builty, warehouse_stock, ebills,
                   sqlite_sequence, cache, req>>

admin_close_rake == \E c \in RakeCodes : close_rake(c)

\* reopen_rake returns a (bool, message) pair; admin_reopen_rake tests the pair
\* itself, which is always truthy, so the flash is always the success message
reopen_rake(rake_code) ==
    /\ IF \E r \in RakeByCode(rake_code) : r.is_closed
       THEN rakes' = {IF r.rake_code = rake_code
                      THEN [r EXCEPT !.is_closed = FALSE, !.shortage = 0]
                      ELSE r : r \in rakes}
       ELSE UNCHANGED rakes
    /\ response' = Flash(0, "reopen_rake", "success")
    /\ UNCHANGED <<loading_slips, builty, warehouse_stock, ebills,
                   sqlite_sequence, cache, req>>

admin_reopen_rake == \E c \in RakeCodes : reopen_rake(c)

\* ---------------------------------------------------------- loading slips
\* INSERT INTO loading_slips; rake_code is NOT NULL, so a NULL rake code raises
\* and the method returns None.  A successful insert clears the cache.
add_loading_slip(p, op, rake_code, slip_number, loading_point_name, quantity_mt) ==
    IF rake_code = NullCode
    THEN /\ UNCHANGED <<loading_slips, sqlite_sequence, cache>>
         /\ response' = Flash(p, op, "Error creating loading slip")
    ELSE /\ loading_slips' = loading_slips \cup
                {[slip_id |-> NextId("loading_slips"),
                  rake_code |-> rake_code,
                  slip_number |-> slip_number,
                  loading_point_name |-> loading_point_name,
                  quantity_mt |-> quantity_mt,
                  builty_id |-> NULL]}
         /\ sqlite_sequence' = Bump("loading_slips")
         /\ cache' = EmptyCache
         /\ response' = Flash(p, op, "success")

\* a balance check that compares the request with the rake's total
ExceedsRakeTotal(balance, quantity_in_mt) ==
    quantity_in_mt > balance.total

\* The balance check of the handler: raised when the request asks for more
\* than get_rake_balance reports as remaining.
InsufficientRakeQuantity(balance, quantity_in_mt) ==
    quantity_in_mt > balance.remaining

\* POST /rakepoint/create-loading-slip, up to the balance check.  The serial
\* number of the form is the one /api/next-serial-number gave the page.
rakepoint_create_loading_slip_check(p, Q) ==
    \E rake_code \in RakeCodes, quantity_in_mt \in Q :
        LET rake_balance == get_rake_balance(rake_code)
        IN /\ req[p].pc = "idle"
           /\ sqlite_sequence["loading_slips"]
                + Pending({"add_loading_slip", "wh_add_loading_slip"}) < MaxSlips
           /\ IF ~ rake_balance.found
              THEN /\ response' = Flash(p, "create_loading_slip", "Invalid rake code")
                   /\ UNCHANGED req
              ELSE IF InsufficientRakeQuantity(rake_balance, quantity_in_mt)
              THEN /\ response' = Flash(p, "create_loading_slip", "Insufficient rake quantity")
                   /\ UNCHANGED req
              ELSE /\ req' = [req EXCEPT ![p] =
                                [pc |-> "add_loading_slip",
                                 rake_code |-> rake_code,
                                 serial_number |-> get_next_serial_number_for_rake(rake_code),
                                 quantity_mt |-> quantity_in_mt]]
                   /\ UNCHANGED response
           /\ UNCHANGED <<tables, sqlite_sequence, cache>>

\* ... and its db.add_loading_slip call, followed by db.invalidate_cache()
rakepoint_create_loading_slip_insert(p) ==
    /\ req[p].pc = "add_loading_slip"
    /\ add_loading_slip(p, "create_loading_slip", req[p].rake_code,
                        req[p].serial_number, RakePoint, req[p].quantity_mt)
    /\ req' = [req EXCEPT ![p] = Idle]
    /\ UNCHANGED <<rakes, builty, warehouse_stock, ebills>>

\* UPDATE loading_slips SET quantity_mt = ... WHERE slip_id = ?
update_loading_slip(slip_id, quantity_mt) ==
    /\ IF \E s \in loading_slips : s.slip_id = slip_id
       THEN /\ loading_slips' = {IF s.slip_id = slip_id
                                 THEN [s EXCEPT !.quantity_mt = quantity_mt]
                                 ELSE s : s \in loading_slips}
            /\ cache' = EmptyCache
            /\ response' = Flash(0, "update_loading_slip", "success")
       ELSE /\ UNCHANGED <<loading_slips, cache>>
            /\ response' = Flash(0, "update_loading_slip", "Loading slip not found")
    /\ UNCHANGED <<rakes, builty, warehouse_stock, ebills, sqlite_sequence, req>>

admin_edit_loading_slip(Q) ==
    \E slip_id \in 1..MaxSlips, quantity_mt \in Q :
        update_loading_slip(slip_id, quantity_mt)

\* POST /warehouse/do-creation: the same UPDATE through execute_custom_query,
\* with no cache invalidation and a success flash whatever the row count
warehouse_do_creation(Q) ==
    \E slip_id \in 1..MaxSlips, new_quantity \in Q :
        /\ loading_slips' = {IF s.slip_id = slip_id
                             THEN [s EXCEPT !.quantity_mt = new_quantity]
                             ELSE s : s \in loading_slips}
        /\ response' = Flash(0, "do_creation", "success")
        /\ UNCHANGED <<rakes, builty, warehouse_stock, ebills,
                       sqlite_sequence, cache, req>>

\* a deletion that does not ask whether the slip has a builty
delete_loading_slip_unconfirmed(slip_id, delete_builty) ==
    /\ loading_slips' = {s \in loading_slips : s.slip_id # slip_id}
    /\ response' = Flash(0, "delete_loading_slip",
                         IF \E s \in loading_slips : s.slip_id = slip_id
                         THEN "success" ELSE "Loading slip not found")
    /\ UNCHANGED <<rakes, builty, warehouse_stock, ebills, sqlite_sequence, cache, req>>

delete_loading_slip(slip_id, delete_builty) ==
    /\ IF ~ \E s \in loading_slips : s.slip_id = slip_id
       THEN /\ UNCHANGED <<loading_slips, builty, warehouse_stock>>
            /\ response' = Flash(0, "delete_loading_slip", "Loading slip not found")
       ELSE LET slip == CHOOSE s \in loading_slips : s.slip_id = slip_id
            IN IF slip.builty_id # NULL /\ ~ delete_builty
               THEN /\ UNCHANGED <<loading_slips, builty, warehouse_stock>>
                    /\ response' = Flash(0, "delete_loading_slip",
                                         "Loading slip has an associated builty")
               ELSE /\ warehouse_stock' =
                         IF slip.builty_id # NULL
                         THEN {w \in warehouse_stock : w.builty_id # slip.builty_id}
                         ELSE warehouse_stock
                    /\ builty' =
                         IF slip.builty_id # NULL
                         THEN {b \in builty : b.builty_id # slip.builty_id}
                         ELSE builty
                    /\ loading_slips' = loading_slips \ {slip}
                    /\ response' = Flash(0, "delete_loading_slip", "success")
    /\ UNCHANGED <<rakes, ebills, sqlite_sequence, cache, req>>

admin_delete_loading_slip ==
    \E slip_id \in 1..MaxSlips, delete_builty \in BOOLEAN :
        delete_loading_slip(slip_id, delete_builty)

\* fetchone() of the slips linked to the builty: any one of them
delete_builty(builty_id, delete_loading_slip_too) ==
    /\ IF ~ \E b \in builty : b.builty_id = builty_id
       THEN /\ UNCHANGED <<loading_slips, builty, warehouse_stock>>
            /\ response' = Flash(0, "delete_builty", "Builty not found")
       ELSE LET linked == {s \in loading_slips : s.builty_id = builty_id}
            IN /\ warehouse_stock' = {w \in warehouse_stock : w.builty_id # builty_id}
               /\ IF linked = {}
                  THEN UNCHANGED loading_slips
                  ELSE \E linked_slip \in linked :
                         loading_slips' =
                            IF delete_loading_slip_too
                            THEN loading_slips \ {linked_slip}
                            ELSE (loading_slips \ {linked_slip}) \cup
                                 {[linked_slip EXCEPT !.builty_id = NULL]}
               /\ builty' = {b \in builty : b.builty_id # builty_id}
               /\ response' = Flash(0, "delete_builty", "success")
    /\ UNCHANGED <<rakes, ebills, sqlite_sequence, cache, req>>

admin_delete_builty ==
    \E builty_id \in 1..MaxBuilties, delete_loading_slip_too \in BOOLEAN :
        delete_builty(builty_id, delete_loading_slip_too)

\* ---------------------------------------------------------------- builty
\* INSERT INTO builty; builty_number is UNIQUE, a duplicate raises and the
\* method returns None.  A successful insert clears the cache.
BuiltyInserted(builty_number) == ~ \E b \in builty : b.builty_number = builty_number

\* an insert into a builty table without the UNIQUE constraint
add_builty_unconstrained(builty_number, rake_code, quantity_mt) ==
    /\ builty' = builty \cup {[builty_id |-> NextId("builty"),
                               builty_number |-> builty_number,
                               rake_code |-> rake_code,
                               quantity_mt |-> quantity_mt]}
    /\ sqlite_sequence' = Bump("builty")
    /\ cache' = EmptyCache

add_builty(builty_number, rake_code, quantity_mt) ==
    IF BuiltyInserted(builty_number)
    THEN /\ builty' = builty \cup {[builty_id |-> NextId("builty"),
                                    builty_number |-> builty_number,
                                    rake_code |-> rake_code,
                                    quantity_mt |-> quantity_mt]}
         /\ sqlite_sequence' = Bump("builty")
         /\ cache' = EmptyCache
    ELSE UNCHANGED <<builty, sqlite_sequence, cache>>

\* a link that undoes itself when repeated
toggle_loading_slip_link(slips, slip_id, builty_id) ==
    {IF s.slip_id = slip_id
     THEN [s EXCEPT !.builty_id = IF @ = builty_id THEN NULL ELSE builty_id]
     ELSE s : s \in slips}

\* the UPDATE without its WHERE clause
link_every_loading_slip_to_builty(slips, slip_id, builty_id) ==
    {[s EXCEPT !.builty_id = builty_id] : s \in slips}

\* UPDATE loading_slips SET builty_id = ? WHERE slip_id = ?  An existing link
\* only prints a warning; the new builty id overwrites it.
link_loading_slip_to_builty(slips, slip_id, builty_id) ==
    {IF s.slip_id = slip_id THEN [s EXCEPT !.builty_id = builty_id] ELSE s : s \in slips}

\* the method's return value: False only when the slip does not exist
LinkSuccess(slips, slip_id) == \E s \in slips : s.slip_id = slip_id

\* room for one more builty row
BuiltyRoom == sqlite_sequence["builty"] < MaxBuilties

\* POST /rakepoint/create-builty, up to db.add_builty: the builty number is
\* the prefix BLT- and the current second, everything else comes from the form
rakepoint_create_builty_add(p, Q) ==
    \E loading_slip_id \in {NULL} \cup (1..MaxSlips), rake_code \in RakeCodes,
       quantity_wt_mt \in Q, stamp \in BuiltyNumbers :
        LET builty_number == <<"BLT", stamp>>
        IN /\ req[p].pc = "idle"
           /\ BuiltyRoom
           /\ add_builty(builty_number, rake_code, quantity_wt_mt)
           /\ IF ~ BuiltyInserted(builty_number)
              THEN /\ UNCHANGED req
                   /\ response' = Flash(p, "create_builty", "Error creating builty")
              ELSE IF loading_slip_id = NULL
              THEN /\ UNCHANGED req
                   /\ response' = Flash(p, "create_builty", "success")
              ELSE /\ req' = [req EXCEPT ![p] = [pc |-> "rp_link",
                                                 loading_slip_id |-> loading_slip_id,
                                                 builty_id |-> NextId("builty")]]
                   /\ UNCHANGED response
           /\ UNCHANGED <<rakes, loading_slips, warehouse_stock, ebills>>

\* ... db.link_loading_slip_to_builty
rakepoint_create_builty_link(p) ==
    /\ req[p].pc = "rp_link"
    /\ loading_slips' = link_loading_slip_to_builty(loading_slips,
                            req[p].loading_slip_id, req[p].builty_id)
    /\ response' = Flash(p, "create_builty",
                         IF LinkSuccess(loading_slips, req[p].loading_slip_id)
                         THEN "success" ELSE "created but failed to link")
    /\ req' = [req EXCEPT ![p] = Idle]
    /\ UNCHANGED <<rakes, builty, warehouse_stock, ebills, sqlite_sequence, cache>>

\* A caller of Database.link_loading_slip_to_builty that makes the call twice
\* with the same arguments: the first call ...
link_loading_slip_to_builty_call(p) ==
    \E slip_id \in 1..MaxSlips, builty_id \in 1..MaxBuilties :
        /\ req[p].pc = "idle"
        /\ loading_slips' = link_loading_slip_to_builty(loading_slips, slip_id, builty_id)
        /\ response' = Flash(p, "link",
                             IF LinkSuccess(loading_slips, slip_id) THEN "True" ELSE "False")
        /\ req' = [req EXCEPT ![p] = [pc |-> "link_again",
                                      loading_slip_id |-> slip_id,
                                      builty_id |-> builty_id]]
        /\ UNCHANGED <<rakes, builty, warehouse_stock, ebills, sqlite_sequence, cache>>

\* ... and the second
link_loading_slip_to_builty_again(p) ==
    /\ req[p].pc = "link_again"
    /\ loading_slips' = link_loading_slip_to_builty(loading_slips,
                            req[p].loading_slip_id, req[p].builty_id)
    /\ response' = Flash(p, "link_again",
                         IF LinkSuccess(loading_slips, req[p].loading_slip_id)
                         THEN "True" ELSE "False")
    /\ req' = [req EXCEPT ![p] = Idle]
    /\ UNCHANGED <<rakes, builty, warehouse_stock, ebills, sqlite_sequence, cache>>

\* UPDATE builty SET quantity_mt = ?; the difference is then added to every
\* warehouse_stock row of the builty, IN and OUT alike
update_builty(builty_id, quantity_mt) ==
    /\ IF \E b \in builty : b.builty_id = builty_id
       THEN LET old_builty == CHOOSE b \in builty : b.builty_id = builty_id
                quantity_diff == quantity_mt - old_builty.quantity_mt
            IN /\ builty' = (builty \ {old_builty}) \cup
                            {[old_builty EXCEPT !.quantity_mt = quantity_mt]}
               /\ warehouse_stock' =
                     {IF w.builty_id = builty_id
                      THEN [w EXCEPT !.quantity_mt = @ + quantity_diff]
                      ELSE w : w \in warehouse_stock}
               /\ cache' = EmptyCache
               /\ response' = Flash(0, "update_builty", "success")
       ELSE /\ UNCHANGED <<builty, warehouse_stock, cache>>
            /\ response' = Flash(0, "update_builty", "Builty not found")
    /\ UNCHANGED <<rakes, loading_slips, ebills, sqlite_sequence, req>>

admin_edit_builty(Q) ==
    \E builty_id \in 1..MaxBuilties, quantity_mt \in Q :
        update_builty(builty_id, quantity_mt)

\* ------------------------------------------------------- warehouse stock
StockOf(stock, warehouse_id, type) ==
    {w \in stock : w.warehouse_id = warehouse_id /\ w.transaction_type = type}

get_warehouse_balance_stock(warehouse_id) ==
    LET stock_in == SumQty(StockOf(warehouse_stock, warehouse_id, "IN"))
        stock_out == SumQty(StockOf(warehouse_stock, warehouse_id, "OUT"))
    IN [stock_in |-> stock_in, stock_out |-> stock_out, balance |-> stock_in - stock_out]

\* a stock check that compares the request with what ever came in
ExceedsStockIn(balance, quantity) == balance.stock_in < quantity

\* the handlers' stock check
InsufficientStock(balance, quantity) == balance.balance < quantity

StockRow(warehouse_id, builty_id, type, quantity_mt) ==
    [stock_id |-> NextId("warehouse_stock"),
     warehouse_id |-> warehouse_id,
     builty_id |-> builty_id,
     transaction_type |-> type,
     quantity_mt |-> quantity_mt]

add_warehouse_stock_in(warehouse_id, builty_id, quantity_mt) ==
    /\ warehouse_stock' = warehouse_stock \cup
                          {StockRow(warehouse_id, builty_id, "IN", quantity_mt)}
    /\ sqlite_sequence' = Bump("warehouse_stock")
    /\ cache' = EmptyCache

add_warehouse_stock_out(warehouse_id, builty_id, quantity_mt) ==
    /\ warehouse_stock' = warehouse_stock \cup
                          {StockRow(warehouse_id, builty_id, "OUT", quantity_mt)}
    /\ sqlite_sequence' = Bump("warehouse_stock")
    /\ cache' = EmptyCache

\* room for one more stock row, counting the requests about to insert one
StockRoom ==
    sqlite_sequence["warehouse_stock"]
      + Pending({"add_stock_in", "wh_add_builty", "wh_link", "wh_stock_out",
                 "so_add_builty", "so_stock_out"}) < MaxStock

\* the handler's duplicate check: the IN rows already recorded for the builty
ExistingStockIn(builty_id) ==
    {w \in warehouse_stock : w.builty_id = builty_id /\ w.transaction_type = "IN"}

\* POST /warehouse/stock-in, up to the duplicate check (source_type 'rake'
\* carries a builty id, source_type 'truck' carries none)
warehouse_stock_in_check(p, Q) ==
    \E warehouse_id \in Warehouses, builty_id \in {NULL} \cup (1..MaxBuilties),
       quantity \in Q :
        /\ req[p].pc = "idle"
        /\ StockRoom
        /\ IF builty_id # NULL /\ ExistingStockIn(builty_id) # {}
           THEN /\ response' = Flash(p, "stock_in", "already recorded for Stock IN")
                /\ UNCHANGED req
           ELSE /\ req' = [req EXCEPT ![p] = [pc |-> "add_stock_in",
                                              warehouse_id |-> warehouse_id,
                                              builty_id |-> builty_id,
                                              quantity_mt |-> quantity]]
                /\ UNCHANGED response
        /\ UNCHANGED <<tables, sqlite_sequence, cache>>

\* ... db.add_warehouse_stock_in
warehouse_stock_in_insert(p) ==
    /\ req[p].pc = "add_stock_in"
    /\ add_warehouse_stock_in(req[p].warehouse_id, req[p].builty_id, req[p].quantity_mt)
    /\ response' = Flash(p, "stock_in", "success")
    /\ req' = [req EXCEPT ![p] = Idle]
    /\ UNCHANGED <<rakes, loading_slips, builty, ebills>>

\* "rake code from most recent stock IN": the builty of the warehouse's IN row
\* with the highest stock_id that joins a builty
RecentRakeCode(warehouse_id, default) ==
    LET joined == {w \in StockOf(warehouse_stock, warehouse_id, "IN") :
                      \E b \in builty : b.builty_id = w.builty_id}
    IN IF joined = {} THEN default
       ELSE LET last == CHOOSE w \in joined : \A v \in joined : v.stock_id <= w.stock_id
            IN (CHOOSE b \in builty : b.builty_id = last.builty_id).rake_code

\* POST /warehouse/stock-out, up to the stock check
warehouse_stock_out_check(p, Q) ==
    \E warehouse_id \in Warehouses, quantity_wt_mt \in Q :
        /\ req[p].pc = "idle"
        /\ StockRoom
        /\ IF InsufficientStock(get_warehouse_balance_stock(warehouse_id), quantity_wt_mt)
           THEN /\ response' = Flash(p, "stock_out", "Insufficient stock")
                /\ UNCHANGED req
           ELSE /\ req' = [req EXCEPT ![p] = [pc |-> "so_add_builty",
                                              warehouse_id |-> warehouse_id,
                                              quantity_mt |-> quantity_wt_mt]]
                /\ UNCHANGED response
        /\ UNCHANGED <<tables, sqlite_sequence, cache>>

\* ... the rake code query and db.add_builty, under the number BLTO- and the
\* current second
warehouse_stock_out_add_builty(p) ==
    \E stamp \in BuiltyNumbers :
        LET builty_number == <<"BLTO", stamp>>
        IN /\ req[p].pc = "so_add_builty"
           /\ BuiltyRoom
           /\ add_builty(builty_number, RecentRakeCode(req[p].warehouse_id, NullCode),
                         req[p].quantity_mt)
           /\ IF BuiltyInserted(builty_number)
              THEN /\ req' = [req EXCEPT ![p] = [pc |-> "so_stock_out",
                                                 warehouse_id |-> req[p].warehouse_id,
                                                 builty_id |-> NextId("builty"),
                                                 quantity_mt |-> req[p].quantity_mt]]
                   /\ UNCHANGED response
              ELSE /\ req' = [req EXCEPT ![p] = Idle]
                   /\ response' = Flash(p, "stock_out", "Error creating builty")
           /\ UNCHANGED <<rakes, loading_slips, warehouse_stock, ebills>>

\* ... db.add_warehouse_stock_out
warehouse_stock_out_insert(p) ==
    /\ req[p].pc = "so_stock_out"
    /\ add_warehouse_stock_out(req[p].warehouse_id, req[p].builty_id, req[p].quantity_mt)
    /\ response' = Flash(p, "stock_out", "success")
    /\ req' = [req EXCEPT ![p] = Idle]
    /\ UNCHANGED <<rakes, loading_slips, builty, ebills>>

\* POST /warehouse/create-builty, up to the stock check.  With a loading slip
\* id the slip is read: an unknown slip leaves truck_id unbound and the handler
\* dies later with an unhandled NameError before any write; a slip that has a
\* builty is refused; otherwise the slip's quantity replaces the form's.
warehouse_create_builty_check(p, Q) ==
    \E loading_slip_id \in {NULL} \cup (1..MaxSlips), warehouse_id \in Warehouses,
       form_quantity \in Q :
        LET found == {s \in loading_slips : s.slip_id = loading_slip_id}
            slip == CHOOSE s \in found : TRUE
            quantity_wt_mt == IF found # {} THEN slip.quantity_mt ELSE form_quantity
            balance == get_warehouse_balance_stock(warehouse_id)
        IN /\ req[p].pc = "idle"
           /\ StockRoom
           /\ IF found # {} /\ slip.builty_id # NULL
              THEN /\ response' = Flash(p, "wh_create_builty", "already has a builty")
                   /\ UNCHANGED req
              ELSE IF InsufficientStock(balance, quantity_wt_mt)
              THEN /\ response' = Flash(p, "wh_create_builty", "Insufficient stock")
                   /\ UNCHANGED req
              ELSE IF loading_slip_id # NULL /\ found = {}
              THEN /\ response' = Flash(p, "wh_create_builty", "500")
                   /\ UNCHANGED req
              ELSE /\ req' = [req EXCEPT ![p] = [pc |-> "wh_add_builty",
                                                 warehouse_id |-> warehouse_id,
                                                 loading_slip_id |-> loading_slip_id,
                                                 quantity_mt |-> quantity_wt_mt]]
                   /\ UNCHANGED response
           /\ UNCHANGED <<tables, sqlite_sequence, cache>>

\* ... the rake code query and db.add_builty, under the number WBLT- and the
\* current second
warehouse_create_builty_add(p) ==
    \E stamp \in BuiltyNumbers :
        LET builty_number == <<"WBLT", stamp>>
        IN /\ req[p].pc = "wh_add_builty"
           /\ BuiltyRoom
           /\ add_builty(builty_number, RecentRakeCode(req[p].warehouse_id, WAREHOUSE),
                         req[p].quantity_mt)
           /\ IF BuiltyInserted(builty_number)
              THEN /\ req' = [req EXCEPT ![p] =
                                [pc |-> IF req[p].loading_slip_id # NULL
                                        THEN "wh_link" ELSE "wh_stock_out",
                                 warehouse_id |-> req[p].warehouse_id,
                                 loading_slip_id |-> req[p].loading_slip_id,
                                 builty_id |-> NextId("builty"),
                                 quantity_mt |-> req[p].quantity_mt]]
                   /\ UNCHANGED response
              ELSE /\ req' = [req EXCEPT ![p] = Idle]
                   /\ response' = Flash(p, "wh_create_builty", "Error creating builty")
           /\ UNCHANGED <<rakes, loading_slips, warehouse_stock, ebills>>

\* ... db.link_loading_slip_to_builty, its result ignored
warehouse_create_builty_link(p) ==
    /\ req[p].pc = "wh_link"
    /\ loading_slips' = link_loading_slip_to_builty(loading_slips,
                            req[p].loading_slip_id, req[p].builty_id)
    /\ req' = [req EXCEPT ![p].pc = "wh_stock_out"]
    /\ UNCHANGED <<rakes, builty, warehouse_stock, ebills, sqlite_sequence,
                   cache, response>>

\* ... db.add_warehouse_stock_out
warehouse_create_builty_stock_out(p) ==
    /\ req[p].pc = "wh_stock_out"
    /\ add_warehouse_stock_out(req[p].warehouse_id, req[p].builty_id, req[p].quantity_mt)
    /\ response' = Flash(p, "wh_create_builty", "success")
    /\ req' = [req EXCEPT ![p] = Idle]
    /\ UNCHANGED <<rakes, loading_slips, builty, ebills>>

\* /api/next-loading-slip-serial/<warehouse_name>
get_next_loading_slip_serial_api(warehouse_id) ==
    LET S == {s \in loading_slips : s.loading_point_name = warehouse_id}
    IN IF S = {} THEN 1 ELSE MaxOf({s.slip_number : s \in S}) + 1

\* POST /warehouse/create-loading-slip, up to the stock check; the rake balance
\* is not consulted
warehouse_create_loading_slip_check(p, Q) ==
    \E warehouse_id \in Warehouses, quantity_in_mt \in Q :
        /\ req[p].pc = "idle"
        /\ sqlite_sequence["loading_slips"]
             + Pending({"add_loading_slip", "wh_add_loading_slip"}) < MaxSlips
        /\ IF InsufficientStock(get_warehouse_balance_stock(warehouse_id), quantity_in_mt)
           THEN /\ response' = Flash(p, "wh_create_loading_slip", "Insufficient stock")
                /\ UNCHANGED req
           ELSE /\ req' = [req EXCEPT ![p] =
                             [pc |-> "wh_add_loading_slip",
                              warehouse_id |-> warehouse_id,
                              serial_number |-> get_next_loading_slip_serial_api(warehouse_id),
                              quantity_mt |-> quantity_in_mt]]
                /\ UNCHANGED response
        /\ UNCHANGED <<tables, sqlite_sequence, cache>>

\* ... the rake code query and db.add_loading_slip under that rake code
warehouse_create_loading_slip_insert(p) ==
    /\ req[p].pc = "wh_add_loading_slip"
    /\ add_loading_slip(p, "wh_create_loading_slip",
                        RecentRakeCode(req[p].warehouse_id, WAREHOUSE),
                        req[p].serial_number, req[p].warehouse_id, req[p].quantity_mt)
    /\ req' = [req EXCEPT ![p] = Idle]
    /\ UNCHANGED <<rakes, builty, warehouse_stock, ebills>>

\* UPDATE warehouse_stock SET quantity_mt = ? WHERE stock_id = ?
update_warehouse_stock_allocation(stock_id, quantity_mt) ==
    /\ warehouse_stock' = {IF w.stock_id = stock_id
                           THEN [w EXCEPT !.quantity_mt = quantity_mt]
                           ELSE w : w \in warehouse_stock}
    /\ response' = Flash(0, "edit_warehouse_stock", "success")
    /\ UNCHANGED <<rakes, loading_slips, builty, ebills, sqlite_sequence, cache, req>>

admin_edit_warehouse_stock(Q) ==
    \E stock_id \in 1..MaxStock, quantity_mt \in Q :
        update_warehouse_stock_allocation(stock_id, quantity_mt)

\* ---------------------------------------------------------------- e-bills
\* INSERT INTO ebills; ebill_number is UNIQUE, a duplicate raises and the
\* method returns None.  builty_id carries no constraint that is enforced.
add_ebill(builty_id, ebill_number) ==
    IF \E e \in ebills : e.ebill_number = ebill_number
    THEN /\ UNCHANGED <<ebills, sqlite_sequence>>
         /\ response' = Flash(0, "create_ebill", "Error creating e-bill")
    ELSE /\ ebills' = ebills \cup {[ebill_id |-> NextId("ebills"),
                                    builty_id |-> builty_id,
                                    ebill_number |-> ebill_number]}
         /\ sqlite_sequence' = Bump("ebills")
         /\ response' = Flash(0, "create_ebill", "success")

\* POST /accountant/create-ebill: the form's builty id and e-bill number go
\* to db.add_ebill as they are
accountant_create_ebill ==
    \E builty_id \in 1..MaxBuilties, ebill_number \in EbillNumbers :
        /\ sqlite_sequence["ebills"] < MaxEbills
        /\ add_ebill(builty_id, ebill_number)
        /\ UNCHANGED <<rakes, loading_slips, builty, warehouse_stock, cache, req>>

\* --------------------------------------------------------- cached reads
\* SimpleCache.get: the stored value while its 30 seconds have not passed,
\* nothing otherwise
SimpleCache_get(key, expired) == IF expired THEN {} ELSE cache[key]

\* SELECT ... FROM rakes r LEFT JOIN loading_slips ls ... GROUP BY r.rake_code
all_rake_balances ==
    {LET dispatched == SumQty(SlipsOfRake(loading_slips, r.rake_code))
     IN [rake_code |-> r.rake_code,
         rr_quantity |-> r.rr_quantity,
         dispatched |-> dispatched,
         remaining |-> r.rr_quantity - dispatched] : r \in rakes}

\* SELECT ... FROM warehouse_stock GROUP BY warehouse_id
all_warehouse_balances ==
    {[warehouse_id |-> warehouse_id,
      balance |-> get_warehouse_balance_stock(warehouse_id)] :
        warehouse_id \in {w.warehouse_id : w \in warehouse_stock}}

\* SELECT r.*, SUM(ls.quantity_mt) ... GROUP BY r.rake_id, ...
rakes_with_balances ==
    {LET dispatched == SumQty(SlipsOfRake(loading_slips, r.rake_code))
     IN [rake |-> r,
         dispatched |-> dispatched,
         remaining |-> r.rr_quantity - dispatched] : r \in rakes}

\* a cached read: a live entry is returned as it is, otherwise the query runs
\* and its result is stored under the key
cached_read(key, result, expired) ==
    /\ cache' = IF SimpleCache_get(key, expired) # {}
                THEN cache
                ELSE [cache EXCEPT ![key] = {result}]
    /\ UNCHANGED <<tables, sqlite_sequence, req, response>>

get_all_rake_balances ==
    \E expired \in BOOLEAN : cached_read("all_rake_balances", all_rake_balances, expired)

get_all_warehouse_balances ==
    \E expired \in BOOLEAN :
        cached_read("all_warehouse_balances", all_warehouse_balances, expired)

get_rakes_with_balances ==
    \E expired \in BOOLEAN :
        cached_read("rakes_with_balances", rakes_with_balances, expired)

\* ------------------------------------------------------- specifications
Init ==
    /\ rakes = {}
    /\ loading_slips = {}
    /\ builty = {}
    /\ warehouse_stock = {}
    /\ ebills = {}
    /\ sqlite_sequence = [t \in {"rakes", "loading_slips", "builty",
                                 "warehouse_stock", "ebills"} |-> 0]
    /\ cache = EmptyCache
    /\ req = [p \in Procs |-> Idle]
    /\ response = NoResponse

\* The rake point's ledger: rakes, the loading slips made at the rake point
\* and the administrator's corrections, with any number as a quantity
NextRakePoint ==
    \/ admin_add_rake
    \/ admin_close_rake
    \/ admin_reopen_rake
    \/ \E p \in Procs : rakepoint_create_loading_slip_check(p, QtyInputs)
    \/ \E p \in Procs : rakepoint_create_loading_slip_insert(p)
    \/ admin_edit_loading_slip(QtyInputs)
    \/ admin_delete_loading_slip

SpecRakePoint == Init /\ [][NextRakePoint]_vars

\* The rake ledger: the same, and the loading slips made and corrected at the
\* warehouses
NextRake ==
    \/ admin_add_rake
    \/ admin_close_rake
    \/ admin_reopen_rake
    \/ \E p \in Procs : rakepoint_create_loading_slip_check(p, QtyInputs)
    \/ \E p \in Procs : rakepoint_create_loading_slip_insert(p)
    \/ \E p \in Procs : warehouse_create_loading_slip_check(p, QtyInputs)
    \/ \E p \in Procs : warehouse_create_loading_slip_insert(p)
    \/ admin_edit_loading_slip(QtyInputs)
    \/ warehouse_do_creation(QtyInputs)
    \/ admin_delete_loading_slip

SpecRake == Init /\ [][NextRake]_vars

\* Stock IN and stock OUT of the warehouses, with clients that send positive
\* quantities only
NextStockOut ==
    \/ \E p \in Procs : warehouse_stock_in_check(p, PosQty)
    \/ \E p \in Procs : warehouse_stock_in_insert(p)
    \/ \E p \in Procs : warehouse_stock_out_check(p, PosQty)
    \/ \E p \in Procs : warehouse_stock_out_add_builty(p)
    \/ \E p \in Procs : warehouse_stock_out_insert(p)

SpecStockOut == Init /\ [][NextStockOut]_vars

\* Builties arriving from the rake point and their stock IN, with clients
\* that send positive quantities only
NextStockIn ==
    \/ \E p \in Procs : rakepoint_create_builty_add(p, PosQty)
    \/ \E p \in Procs : rakepoint_create_builty_link(p)
    \/ \E p \in Procs : warehouse_stock_in_check(p, PosQty)
    \/ \E p \in Procs : warehouse_stock_in_insert(p)
    \/ admin_delete_builty

SpecStockIn == Init /\ [][NextStockIn]_vars

\* Stock IN, stock OUT and the administrator's corrections, all with positive
\* quantities
NextWarehouseAdmin ==
    \/ \E p \in Procs : warehouse_stock_in_check(p, PosQty)
    \/ \E p \in Procs : warehouse_stock_in_insert(p)
    \/ \E p \in Procs : warehouse_stock_out_check(p, PosQty)
    \/ \E p \in Procs : warehouse_stock_out_add_builty(p)
    \/ \E p \in Procs : warehouse_stock_out_insert(p)
    \/ admin_edit_builty(PosQty)
    \/ admin_delete_builty
    \/ admin_edit_warehouse_stock(PosQty)

SpecWarehouseAdmin == Init /\ [][NextWarehouseAdmin]_vars

\* The state after one stock IN from a truck has filled a warehouse
InitStocked ==
    /\ rakes = {}
    /\ loading_slips = {}
    /\ builty = {}
    /\ \E warehouse_id \in Warehouses :
          warehouse_stock = {[stock_id |-> 1,
                              warehouse_id |-> warehouse_id,
                              builty_id |-> NULL,
                              transaction_type |-> "IN",
                              quantity_mt |-> MaxQty]}
    /\ ebills = {}
    /\ sqlite_sequence = [t \in {"rakes", "loading_slips", "builty",
                                 "warehouse_stock", "ebills"} |->
                             IF t = "warehouse_stock" THEN 1 ELSE 0]
    /\ cache = EmptyCache
    /\ req = [p \in Procs |-> Idle]
    /\ response = Flash(1, "stock_in", "success")

\* Loading slips, the builties made for them at the rake point and at the
\* warehouse, and their deletion, in a warehouse that holds stock
NextLink ==
    \/ admin_add_rake
    \/ \E p \in Procs : rakepoint_create_loading_slip_check(p, UnitQty)
    \/ \E p \in Procs : rakepoint_create_loading_slip_insert(p)
    \/ \E p \in Procs : rakepoint_create_builty_add(p, UnitQty)
    \/ \E p \in Procs : rakepoint_create_builty_link(p)
    \/ \E p \in Procs : warehouse_create_builty_check(p, UnitQty)
    \/ \E p \in Procs : warehouse_create_builty_add(p)
    \/ \E p \in Procs : warehouse_create_builty_link(p)
    \/ \E p \in Procs : warehouse_create_builty_stock_out(p)
    \/ admin_delete_builty
    \/ admin_delete_loading_slip

SpecLink == InitStocked /\ [][NextLink]_vars

\* Allocation requests only: rakes are added, closed and reopened and loading
\* slips are created at the rake point by clients that send positive
\* quantities; nothing is edited or deleted
NextAllocate ==
    \/ admin_add_rake
    \/ admin_close_rake
    \/ admin_reopen_rake
    \/ \E p \in Procs : rakepoint_create_loading_slip_check(p, PosQty)
    \/ \E p \in Procs : rakepoint_create_loading_slip_insert(p)

SpecAllocate == Init /\ [][NextAllocate]_vars

\* Builties of the rake point and the loading slips they link
NextCreateBuilty ==
    \/ admin_add_rake
    \/ rakepoint_create_loading_slip_check(1, UnitQty)
    \/ rakepoint_create_loading_slip_insert(1)
    \/ \E p \in Procs : rakepoint_create_builty_add(p, UnitQty)
    \/ \E p \in Procs : rakepoint_create_builty_link(p)
    \/ admin_delete_builty

SpecCreateBuilty == Init /\ [][NextCreateBuilty]_vars

\* Loading slips that get a builty and are edited afterwards
NextEditLinked ==
    \/ admin_add_rake
    \/ rakepoint_create_loading_slip_check(1, PosQty)
    \/ rakepoint_create_loading_slip_insert(1)
    \/ \E p \in Procs : rakepoint_create_builty_add(p, PosQty)
    \/ \E p \in Procs : rakepoint_create_builty_link(p)
    \/ admin_edit_loading_slip(PosQty)
    \/ warehouse_do_creation(PosQty)

SpecEditLinked == Init /\ [][NextEditLinked]_vars

\* Builties that are unloaded into a warehouse and edited afterwards
NextEditBuilty ==
    \/ rakepoint_create_builty_add(1, PosQty)
    \/ rakepoint_create_builty_link(1)
    \/ warehouse_stock_in_check(1, PosQty)
    \/ warehouse_stock_in_insert(1)
    \/ admin_edit_builty(PosQty)

SpecEditBuilty == Init /\ [][NextEditBuilty]_vars

\* Loading slips with a builty and its stock entry, and their deletion; a
\* stock-in is only requested while the warehouse holds no entry
NextDeleteSlip ==
    \/ admin_add_rake
    \/ rakepoint_create_loading_slip_check(1, UnitQty)
    \/ rakepoint_create_loading_slip_insert(1)
    \/ rakepoint_create_builty_add(1, UnitQty)
    \/ rakepoint_create_builty_link(1)
    \/ (warehouse_stock = {} /\ warehouse_stock_in_check(1, UnitQty))
    \/ warehouse_stock_in_insert(1)
    \/ admin_delete_loading_slip

SpecDeleteSlip == Init /\ [][NextDeleteSlip]_vars

\* The ledger's writes beside the dashboards' cached reads
NextCache ==
    \/ admin_add_rake
    \/ admin_close_rake
    \/ admin_reopen_rake
    \/ \E p \in Procs : rakepoint_create_loading_slip_check(p, PosQty)
    \/ \E p \in Procs : rakepoint_create_loading_slip_insert(p)
    \/ admin_delete_loading_slip
    \/ admin_edit_warehouse_stock(PosQty)
    \/ get_all_rake_balances
    \/ get_all_warehouse_balances
    \/ get_rakes_with_balances

SpecCache == InitStocked /\ [][NextCache]_vars

\* ------------------------------------------------------------------ claims
\* the quantity dispatched from a rake, summed over the rows themselves
Dispatched(rake_code) == SumQty({s \in loading_slips : s.rake_code = rake_code})

\* C1: every rake that is not closed has dispatched no more than its total:
\* the quantities of the loading slips carrying its rake code sum to at most
\* its rr_quantity.
C1_DispatchedWithinTotal ==
    \A r \in rakes : ~ r.is_closed => Dispatched(r.rake_code) <= r.rr_quantity

\* C2: of two concurrent allocation requests that each ask for the whole
\* remaining quantity only one is stored: whenever the handler inserts its
\* loading slip, the quantity still fits the rake's remaining balance at the
\* moment of the insert.
C2_OneOfTwoAllocationsStored ==
    [][\A p \in Procs :
          (req[p].pc = "add_loading_slip" /\ req'[p].pc = "idle")
          => \E r \in rakes :
                /\ r.rake_code = req[p].rake_code
                /\ req[p].quantity_mt <= r.rr_quantity - Dispatched(r.rake_code)]_vars

\* C3: an allocation request for more than the rake's remaining balance is
\* rejected and stores nothing: a request passes the balance check only with a
\* quantity within total minus dispatched, and the step that answers
\* "Insufficient rake quantity" leaves every table, and so the remaining
\* balance, as it was and leaves no insert pending.
C3_InsufficientBalanceRejected ==
    [][\A p \in Procs :
          /\ (req[p].pc = "idle" /\ req'[p].pc = "add_loading_slip")
             => \E r \in rakes :
                   /\ r.rake_code = req'[p].rake_code
                   /\ req'[p].quantity_mt <= r.rr_quantity - Dispatched(r.rake_code)
          /\ (response' # response
              /\ response' = Flash(p, "create_loading_slip", "Insufficient rake quantity"))
             => /\ UNCHANGED <<tables, sqlite_sequence>>
                /\ req' = req]_vars

\* C3 witness: part of a rake is allocated, part remains, and a request for
\* more than the remainder has just been refused
C3_Witness ==
    /\ response.result = "Insufficient rake quantity"
    /\ \E r \in rakes :
          /\ Dispatched(r.rake_code) > 0
          /\ Dispatched(r.rake_code) < r.rr_quantity
          /\ \A p \in Procs : req[p].pc = "idle"

\* what a warehouse holds, summed over the rows themselves
Balance(warehouse_id) ==
    SumQty({w \in warehouse_stock :
              w.warehouse_id = warehouse_id /\ w.transaction_type = "IN"})
    - SumQty({w \in warehouse_stock :
              w.warehouse_id = warehouse_id /\ w.transaction_type = "OUT"})

\* C4: every warehouse holds a non-negative balance: the quantities of its IN
\* rows minus those of its OUT rows is at least zero.
C4_WarehouseBalanceNonNegative ==
    \A warehouse_id \in Warehouses : Balance(warehouse_id) >= 0

\* C5: the stock check of a stock-out is atomic with its write: whenever the
\* stock-out handler inserts its OUT row, the warehouse's balance at the moment
\* of the insert still covers the quantity.
C5_StockOutCheckAtomic ==
    [][\A p \in Procs :
          (req[p].pc = "so_stock_out" /\ req'[p].pc = "idle")
          => req[p].quantity_mt <= Balance(req[p].warehouse_id)]_vars

\* C6: a stock-out for more than the warehouse's balance is rejected and
\* changes nothing: a request passes the stock check only with a quantity
\* within sum(IN) - sum(OUT), and the step that answers "Insufficient stock"
\* leaves every table as it was (no OUT row, no builty) and leaves no insert
\* pending.
C6_InsufficientStockRejected ==
    [][\A p \in Procs :
          /\ (req[p].pc = "idle" /\ req'[p].pc = "so_add_builty")
             => req'[p].quantity_mt <= Balance(req'[p].warehouse_id)
          /\ (response' # response
              /\ response' = Flash(p, "stock_out", "Insufficient stock"))
             => /\ UNCHANGED <<tables, sqlite_sequence>>
                /\ req' = req]_vars

\* C6 witness: a warehouse holds stock, has dispatched some of it, and a
\* stock-out for more than it holds has just been refused
C6_Witness ==
    /\ response = Flash(response.proc, "stock_out", "Insufficient stock")
    /\ \E warehouse_id \in Warehouses :
          /\ Balance(warehouse_id) > 0
          /\ Balance(warehouse_id) < MaxQty
          /\ \E w \in warehouse_stock : w.transaction_type = "OUT"

\* C7: for every builty, the IN rows that reference it sum to no more than the
\* builty's quantity.
C7_StockInWithinDocument ==
    \A b \in builty :
        SumQty({w \in warehouse_stock :
                  w.builty_id = b.builty_id /\ w.transaction_type = "IN"})
          <= b.quantity_mt

\* C8: a builty is stocked in at most once: no two IN rows reference the same
\* builty.
C8_StockedInAtMostOnce ==
    \A b \in builty :
        Cardinality({w \in warehouse_stock :
                       w.builty_id = b.builty_id /\ w.transaction_type = "IN"}) <= 1

\* C9: the link between loading slips and builties is one-to-one: a slip id
\* names one row, which holds one builty id or none, and no builty id is held
\* by two slips.
C9_LinkOneToOne ==
    \A s1, s2 \in loading_slips :
        /\ s1.slip_id = s2.slip_id => s1 = s2
        /\ (s1.builty_id # NULL /\ s1.builty_id = s2.builty_id) => s1 = s2

\* C9 witness: both slips are linked, each to a builty of its own, and one of
\* the builties was made at the warehouse
C9_Witness ==
    /\ Cardinality(loading_slips) = 2
    /\ \A s \in loading_slips : \E b \in builty : b.builty_id = s.builty_id
    /\ \E s \in loading_slips, b \in builty :
          b.builty_id = s.builty_id /\ b.builty_number[1] = "WBLT"

\* C10: linking a slip that is already linked to a different builty is refused
\* and the existing link stays: the link step of a builty creation leaves such
\* a slip's row as it was.
C10_AlreadyLinkedRefused ==
    [][\A p \in Procs :
          (req[p].pc \in {"rp_link", "wh_link"} /\ req'[p].pc # req[p].pc)
          => \A s \in loading_slips :
                (/\ s.slip_id = req[p].loading_slip_id
                 /\ s.builty_id # NULL
                 /\ s.builty_id # req[p].builty_id)
                => s \in loading_slips']_vars

\* Loading slips of one rake point user and callers that link them
NextLinkTwice ==
    \/ admin_add_rake
    \/ rakepoint_create_loading_slip_check(1, UnitQty)
    \/ rakepoint_create_loading_slip_insert(1)
    \/ \E p \in Procs : link_loading_slip_to_builty_call(p)
    \/ \E p \in Procs : link_loading_slip_to_builty_again(p)
    \/ admin_delete_loading_slip

SpecLinkTwice == Init /\ [][NextLinkTwice]_vars

\* C11: linking is idempotent: the first call on an existing slip succeeds and
\* leaves the slip linked to the builty; a second call with the same slip and
\* builty, made while that link stands, succeeds too and leaves the table of
\* loading slips exactly as the first call left it.
C11_LinkIdempotent ==
    [][\A p \in Procs :
          /\ (req[p].pc = "idle" /\ req'[p].pc = "link_again"
              /\ \E s \in loading_slips : s.slip_id = req'[p].loading_slip_id)
             => /\ response' = Flash(p, "link", "True")
                /\ \E s \in loading_slips' :
                      /\ s.slip_id = req'[p].loading_slip_id
                      /\ s.builty_id = req'[p].builty_id
          /\ (req[p].pc = "link_again" /\ req'[p].pc = "idle"
              /\ \E s \in loading_slips :
                    /\ s.slip_id = req[p].loading_slip_id
                    /\ s.builty_id = req[p].builty_id)
             => /\ response' = Flash(p, "link_again", "True")
                /\ loading_slips' = loading_slips]_vars

\* C11 witness: a caller has made its second call and it succeeded, with the
\* slip linked and another slip beside it
C11_Witness ==
    /\ response.op = "link_again"
    /\ response.result = "True"
    /\ Cardinality(loading_slips) = 2
    /\ \E s \in loading_slips : s.builty_id # NULL
    /\ \E s \in loading_slips : s.builty_id = NULL

\* Builties of the rake point, their e-bills and their deletion
NextBill ==
    \/ \E p \in Procs : rakepoint_create_builty_add(p, UnitQty)
    \/ \E p \in Procs : rakepoint_create_builty_link(p)
    \/ accountant_create_ebill
    \/ admin_delete_builty

SpecBill == Init /\ [][NextBill]_vars

\* C12: every builty has at most one e-bill.
C12_OneBillPerDocument ==
    \A b \in builty :
        Cardinality({e \in ebills : e.builty_id = b.builty_id}) <= 1

\* C13: closing an existing rake stores and returns the shortage: the step
\* that answers a close with success marks one rake closed, stores as its
\* shortage its rr_quantity minus the quantities of its loading slips at that
\* moment, quotes the same figure in the answer, and changes no other rake.
C13_CloseStoresShortage ==
    [][(response' # response /\ response'.op = "close_rake"
        /\ response'.result = "success")
       => \E r \in rakes :
             /\ rakes' = (rakes \ {r}) \cup
                         {[r EXCEPT !.is_closed = TRUE,
                                    !.shortage = r.rr_quantity - Dispatched(r.rake_code)]}
             /\ response'.value = r.rr_quantity - Dispatched(r.rake_code)
             /\ loading_slips' = loading_slips]_vars

\* C13 witness: a rake with something dispatched has just been closed with a
\* shortage left over
C13_Witness ==
    /\ response.op = "close_rake"
    /\ response.result = "success"
    /\ response.value > 0
    /\ \E r \in rakes :
          /\ r.is_closed
          /\ r.shortage = response.value
          /\ Dispatched(r.rake_code) > 0
          /\ r.shortage = r.rr_quantity - Dispatched(r.rake_code)

\* C14: reopening changes only the closed flag: a step that takes a rake from
\* closed to open leaves the rake's stored shortage at the value the last
\* close computed and leaves the loading slips, and so the dispatched figure,
\* as they were.
C14_ReopenKeepsShortage ==
    [][\A r \in rakes, r2 \in rakes' :
          (r.rake_code = r2.rake_code /\ r.is_closed /\ ~ r2.is_closed)
          => /\ r2.shortage = r.shortage
             /\ loading_slips' = loading_slips]_vars

\* C15: a closed rake takes no allocation until it is reopened: no request for
\* a closed rake passes the handler's checks, and while a rake stays closed no
\* loading slip is added to it.
C15_ClosedRakeTakesNoAllocation ==
    [][/\ \A p \in Procs :
             (req[p].pc = "idle" /\ req'[p].pc = "add_loading_slip")
             => \A r \in rakes : r.rake_code = req'[p].rake_code => ~ r.is_closed
       /\ \A r \in rakes :
             (r.is_closed /\ r \in rakes')
             => {s.slip_id : s \in SlipsOfRake(loading_slips', r.rake_code)}
                  \subseteq {s.slip_id : s \in SlipsOfRake(loading_slips, r.rake_code)}]_vars

\* C16: closing a closed rake is refused and changes nothing: as long as a
\* rake stays closed its row, and so the shortage of the first close, is the
\* same, and a close is answered with success only when some rake was open.
C16_AlreadyClosedRefused ==
    [][/\ \A r \in rakes, r2 \in rakes' :
             (r.rake_code = r2.rake_code /\ r.is_closed /\ r2.is_closed) => r2 = r
       /\ (response' # response /\ response'.op = "close_rake"
           /\ response'.result = "success")
          => \E r \in rakes : ~ r.is_closed]_vars

\* C17: a reopen that cannot be done is reported as a failure and changes
\* nothing: when no rake is closed, a reopen is not answered with success and
\* leaves the rakes as they were.
C17_ReopenFailureReported ==
    [][(response' # response /\ response'.op = "reopen_rake"
        /\ ~ \E r \in rakes : r.is_closed)
       => /\ response'.result # "success"
          /\ rakes' = rakes]_vars

\* C18: an allocation request with a quantity of zero or less is rejected
\* before anything is stored: no such request passes the handler's checks, and
\* every loading slip that is added carries a quantity above zero.
C18_NonPositiveQuantityRejected ==
    [][/\ \A p \in Procs :
             (req[p].pc = "idle" /\ req'[p].pc = "add_loading_slip")
             => req'[p].quantity_mt > 0
       /\ \A s \in loading_slips' :
             s.slip_id \notin {t.slip_id : t \in loading_slips}
             => s.quantity_mt > 0]_vars

\* C19: serial numbers are unique per rake: no two loading slips of one rake
\* carry the same slip number.
C19_SerialUniquePerRake ==
    \A s1, s2 \in loading_slips :
        (s1.rake_code = s2.rake_code /\ s1.slip_number = s2.slip_number) => s1 = s2

\* C20: deleting a builty leaves no dangling reference: after a step that
\* removes a builty, no warehouse stock row, no loading slip and no e-bill
\* holds the removed builty's id.
C20_NoDanglingReference ==
    [][\A b \in builty :
          b.builty_id \notin {b2.builty_id : b2 \in builty'}
          => /\ \A w \in warehouse_stock' : w.builty_id # b.builty_id
             /\ \A s \in loading_slips' : s.builty_id # b.builty_id
             /\ \A e \in ebills' : e.builty_id # b.builty_id]_vars

\* C21: creating a builty with its loading slip link is all-or-nothing: when
\* the link step of a create-builty request fails, the builty that the request
\* inserted is no longer stored after the step.
C21_CreateBuiltyAllOrNothing ==
    [][\A p \in Procs :
          (/\ req[p].pc = "rp_link"
           /\ req'[p].pc = "idle"
           /\ ~ LinkSuccess(loading_slips, req[p].loading_slip_id))
          => ~ \E b \in builty' : b.builty_id = req[p].builty_id]_vars

\* C22: cached balances are never stale: whatever the cache holds for the
\* all-rake balances, the all-warehouse balances and the rakes with balances
\* is what the query gives on the current tables, so that a cached read
\* returns current values.
C22_CacheNeverStale ==
    /\ cache["all_rake_balances"] \subseteq {all_rake_balances}
    /\ cache["all_warehouse_balances"] \subseteq {all_warehouse_balances}
    /\ cache["rakes_with_balances"] \subseteq {rakes_with_balances}

\* C23: rake codes are unique: an add_rake call answers with an error exactly
\* when it cannot bring a new code, and then leaves the rakes, every other
\* table, the id counters, the cache and the requests as they were; a call
\* that succeeds adds one rake whose code no stored rake had; after every step
\* no two rakes carry the same code.
C23_RakeCodeUnique ==
    [][/\ (response' # response /\ response'.op = "add_rake")
          => /\ response'.result = "error"
                => /\ rakes # {}
                   /\ UNCHANGED <<tables, sqlite_sequence, cache, req>>
             /\ response'.result # "error"
                => /\ \E r \in rakes' \ rakes :
                        /\ rakes' = rakes \cup {r}
                        /\ r.rake_code \notin {x.rake_code : x \in rakes}
                   /\ UNCHANGED <<loading_slips, builty, warehouse_stock, ebills>>
             /\ (\A c \in RakeCodes : RakeByCode(c) # {})
                => response'.result = "error"
       /\ \A r1, r2 \in rakes' : r1.rake_code = r2.rake_code => r1 = r2]_vars

\* a second add_rake for a stored code has been refused
C23_Witness ==
    /\ response.op = "add_rake"
    /\ response.result = "error"
    /\ \E r \in rakes : r.rake_code \in RakeCodes

\* C24: builty numbers are unique: a create-builty request that is answered
\* with the creation error stores nothing (no builty, no link, no stock row, no
\* id used) and has no link step to follow; a builty that a step adds carries a
\* number no stored builty had; when every number a request can carry is
\* taken, a rake point request is answered with the error; after every step no
\* two builties carry the same number.
C24_BuiltyNumberUnique ==
    [][/\ \A p \in Procs :
            (/\ response' # response
             /\ response'.proc = p
             /\ response'.op = "create_builty"
             /\ req[p].pc = "idle")
            => /\ response'.result = "Error creating builty"
                  => /\ UNCHANGED <<tables, sqlite_sequence>>
                     /\ req'[p].pc = "idle"
               /\ (\A n \in BuiltyNumbers :
                      \E b \in builty : b.builty_number = <<"BLT", n>>)
                  => response'.result = "Error creating builty"
       /\ \A b \in builty' \ builty :
            b.builty_number \notin {x.builty_number : x \in builty}
       /\ \A b1, b2 \in builty' : b1.builty_number = b2.builty_number => b1 = b2]_vars

\* a create-builty request with a stored number has been refused while the
\* only builty stays linked to its loading slip
C24_Witness ==
    /\ response.op = "create_builty"
    /\ response.result = "Error creating builty"
    /\ sqlite_sequence["builty"] = 1
    /\ \E b \in builty, s \in loading_slips : s.builty_id = b.builty_id

\* C25: the quantity of a loading slip that is linked to a builty never
\* changes: no step alters the quantity of a slip whose builty_id is set.
C25_LinkedQuantityImmutable ==
    [][\A s \in loading_slips :
          s.builty_id # NULL
          => \A s2 \in loading_slips' :
                s2.slip_id = s.slip_id => s2.quantity_mt = s.quantity_mt]_vars

\* C26: the shortage stored for a closed rake is never negative.
C26_ShortageNonNegative ==
    \A r \in rakes : r.is_closed => r.shortage >= 0

\* C27: every stored quantity is strictly positive: each builty and each
\* warehouse stock row has quantity_mt > 0.
C27_StoredQuantityPositive ==
    /\ \A b \in builty : b.quantity_mt > 0
    /\ \A w \in warehouse_stock : w.quantity_mt > 0

\* C28: for every rake, the builties that carry its code add up to no more
\* than the rake's rr_quantity.
C28_BuiltyTotalWithinRake ==
    \A r \in rakes :
        SumQty({b \in builty : b.rake_code = r.rake_code}) <= r.rr_quantity

\* C29: for every rake, the builties that carry its code add up to no more
\* than its loading slips (loading slip total - builty total >= 0).
C29_BuiltyTotalWithinSlips ==
    \A r \in rakes :
        SumQty({b \in builty : b.rake_code = r.rake_code})
            <= SumQty(SlipsOfRake(loading_slips, r.rake_code))

\* C30: deleting a loading slip that has a builty, without confirming the
\* builty's deletion, is refused and changes nothing: a delete that is
\* answered with the refusal met a linked slip and leaves every table, the id
\* counters, the cache and the requests as they were; and a delete never
\* removes a linked slip alone: when a linked slip goes, its builty and the
\* builty's stock rows go with it.
C30_UnconfirmedDeleteRefused ==
    [][(response' # response /\ response'.op = "delete_loading_slip")
       => /\ response'.result = "Loading slip has an associated builty"
             => /\ \E s \in loading_slips : s.builty_id # NULL
                /\ UNCHANGED <<tables, sqlite_sequence, cache, req>>
          /\ \A s \in loading_slips \ loading_slips' :
                s.builty_id # NULL
                => /\ \A b \in builty' : b.builty_id # s.builty_id
                   /\ \A w \in warehouse_stock' : w.builty_id # s.builty_id]_vars

\* a delete has been refused while the slip's builty has a stock row
C30_Witness ==
    /\ response.op = "delete_loading_slip"
    /\ response.result = "Loading slip has an associated builty"
    /\ \E s \in loading_slips, b \in builty, w \in warehouse_stock :
          /\ s.builty_id = b.builty_id
          /\ w.builty_id = b.builty_id

====
